---- MODULE Spec2Model ----
(***************************************************************************)
(* Model of anonyme.py: the IP address scanner (ip_pattern + re.sub), the  *)
(* replacement policy (replace_ip, anonymize_ipv4, anonymize_ipv6) and the *)
(* file handling of main().                                                *)
(*                                                                         *)
(* Text is a sequence of one-character strings.                            *)
(***************************************************************************)
EXTENDS Integers, Sequences, FiniteSets, TLC

VARIABLES
    mode,       \* replace_with_country_code / args.CC : BOOLEAN
    geo,        \* state of the GeoLite2 database file
    runs,       \* the calls of anonymize_ip_addresses so far: [in, raised, out, repls]
    text,       \* the text the next call of anonymize_ip_addresses is given
    pc,         \* position of main()
    haveArg,    \* the positional argument input_file is on the command line
    sameFs,     \* the temp directory is on the filesystem of the input file
    orig,       \* content of the input file when main() started (Absent: unreadable)
    file,       \* what the input path holds now
    temp,       \* what the temporary file holds now (Absent: no such file)
    content,    \* main's local 'content'
    anonymized, \* main's local 'anonymized_content'
    log,        \* severities appended to anonymize.log
    err,        \* the step whose exception ended the run ("none": no exception)
    exit        \* exit status of the process (NoExit: still running)

vars == <<mode, geo, runs, text, pc, haveArg, sameFs, orig, file, temp,
          content, anonymized, log, err, exit>>

\* ------------------------------------------------------------------ bounds
MaxTokens == 3
MaxFileTokens == 2
MaxRuns == 2

\* ------------------------------------------------------------------ text helpers
Digit == {"0", "1", "2", "3", "4", "5", "6", "7", "8", "9"}
HexDigit == Digit \cup {"a", "b", "c", "d", "e", "f", "A", "B", "C", "D", "E", "F"}

\* F(v), with v evaluated once and F applied to its value (a let-binding that
\* TLC never evaluates twice)
With(v, F(_)) == CHOOSE r \in {F(x) : x \in {v}} : TRUE

Max(a, b) == IF a > b THEN a ELSE b
Min(a, b) == IF a < b THEN a ELSE b
Least(S) == CHOOSE x \in S : \A y \in S : x <= y

\* s[:n]
Take(s, n) == SubSeq(s, 1, Min(n, Len(s)))

\* [x] * n   (a non-positive n gives the empty list)
Rep(x, n) == [i \in 1..Max(n, 0) |-> x]

RECURSIVE Concat(_)
Concat(ss) == IF ss = <<>> THEN <<>> ELSE Head(ss) \o Concat(Tail(ss))

\* sep.join(parts)
RECURSIVE Join(_, _)
Join(parts, sep) ==
    IF parts = <<>> THEN <<>>
    ELSE IF Len(parts) = 1 THEN parts[1]
    ELSE parts[1] \o <<sep>> \o Join(Tail(parts), sep)

\* s.split(sep): the texts between the occurrences of sep, empty ones included
Split(s, sep) ==
    LET at == {i \in 1..Len(s) : s[i] = sep}
        n == Cardinality(at)
        \* position of the k-th occurrence; 0 before the text, Len(s)+1 after it
        Cut(k) == IF k = 0 THEN 0
                  ELSE IF k = n + 1 THEN Len(s) + 1
                  ELSE CHOOSE i \in at : Cardinality({j \in at : j < i}) = k - 1
    IN [k \in 1..(n + 1) |-> SubSeq(s, Cut(k - 1) + 1, Cut(k) - 1)]

\* decimal digits of n
RECURSIVE Dec(_)
Dec(n) ==
    LET d == <<"0", "1", "2", "3", "4", "5", "6", "7", "8", "9">>[(n % 10) + 1]
    IN IF n < 10 THEN <<d>> ELSE Dec(n \div 10) \o <<d>>

DigitVal(c) == CHOOSE n \in 0..9 : Dec(n) = <<c>>

\* the number a group of decimal digits denotes
RECURSIVE DecVal(_, _)
DecVal(g, n) == IF n = 0 THEN 0 ELSE 10 * DecVal(g, n - 1) + DigitVal(g[n])

V4(a, b, c, d) == Join(<<Dec(a), Dec(b), Dec(c), Dec(d)>>, ".")

\* ------------------------------------------------------------------ excluded_ips
Pfx6 == Join(<<<<"2", "a", "0", "1">>, <<"4", "f", "8">>, <<"1", "7", "3">>,
               <<"2", "2", "0", "3">>, <<"0">>, <<"0">>, <<"0">>>>, ":")

excluded_ips ==
    {V4(127, 0, 0, 1), V4(127, 0, 0, 2)}
    \cup {V4(148, 251, 207, n) : n \in 64..79}
    \cup {Pfx6 \o <<":">> \o Dec(n) : n \in {2} \cup (64..79)}

\* ------------------------------------------------------------------ masking
\* anonymize_ipv4 keeping three octets
anonymize_ipv4_keep3(ip_address) ==
    With(Split(ip_address, "."), LAMBDA octets :
        Join(Take(octets, 3) \o <<<<"X", "X", "X">>>>, "."))

\* anonymize_ipv4 without the slice: the two tokens are appended to all octets
anonymize_ipv4_noSlice(ip_address) ==
    With(Split(ip_address, "."), LAMBDA octets :
        Join(octets \o <<<<"X", "X", "X">>, <<"X", "X", "X">>>>, "."))

anonymize_ipv4(ip_address) ==
    With(Split(ip_address, "."), LAMBDA octets :
        LET anonymized_octets == Take(octets, 2) \o <<<<"X", "X", "X">>, <<"X", "X", "X">>>>
        IN Join(anonymized_octets, "."))

anonymize_ipv6(ip_address) ==
    With(Split(ip_address, ":"), LAMBDA groups :
        LET anonymized_groups == Take(groups, 2) \o Rep(<<"X", "X", "X", "X">>, 8 - Len(groups))
        IN Join(anonymized_groups, ":"))

\* ------------------------------------------------------------------ scanner
\* cls{1,max} at position q, greedy: how many characters of cls it takes
RunLen(s, q, cls, max) ==
    CHOOSE k \in 0..max :
        /\ \A i \in 0..(k - 1) : q + i <= Len(s) /\ s[q + i] \in cls
        /\ k = max \/ q + k > Len(s) \/ s[q + k] \notin cls

\* cls{1,max}sep at position q: the length cls{1,max} ends up with (it backs
\* off from the longest run until sep follows), 0 when there is none
GroupLen(s, q, cls, max, sep) ==
    With(RunLen(s, q, cls, max), LAMBDA run :
        LET ks == {k \in 1..run : q + k <= Len(s) /\ s[q + k] = sep}
        IN IF ks = {} THEN 0 ELSE CHOOSE x \in ks : \A y \in ks : y <= x)

\* (?:cls{1,max}sep){n} at position q: the position after it, 0 when it fails
RECURSIVE SepGroups(_, _, _, _, _, _)
SepGroups(s, q, n, cls, max, sep) ==
    IF n = 0 THEN q
    ELSE With(GroupLen(s, q, cls, max, sep), LAMBDA k :
             IF k = 0 THEN 0
             ELSE With(q + k + 1, LAMBDA q2 : SepGroups(s, q2, n - 1, cls, max, sep)))

\* (?:cls{1,max}sep){n}cls{1,max} at q: index of its last character, 0 on failure
Shape(s, q, n, cls, max, sep) ==
    With(SepGroups(s, q, n, cls, max, sep), LAMBDA r :
        IF r = 0 THEN 0
        ELSE With(RunLen(s, r, cls, max), LAMBDA last :
                 IF last = 0 THEN 0 ELSE r + last - 1))

\* the group (?P<ip>...) at q: first alternative IPv4, second IPv6
IpEnd(s, q) ==
    With(Shape(s, q, 3, Digit, 3, "."), LAMBDA e4 :
        IF e4 # 0 THEN e4 ELSE Shape(s, q, 7, HexDigit, 4, ":"))

NoMatch == [start |-> 0, stop |-> 0, ipStart |-> 0, ipStop |-> 0]

\* ip_pattern tried at position p: \[? (?P<ip>...) \]?
MatchAt(s, p) ==
    With(IF p <= Len(s) /\ s[p] = "[" THEN With(p + 1, LAMBDA q : IpEnd(s, q)) ELSE 0,
         LAMBDA withBr :
    With(IF withBr # 0 THEN withBr ELSE IpEnd(s, p), LAMBDA ipStop :
        IF ipStop = 0 THEN NoMatch
        ELSE [start |-> p,
              stop |-> IF ipStop < Len(s) /\ s[ipStop + 1] = "]" THEN ipStop + 1 ELSE ipStop,
              ipStart |-> IF withBr # 0 THEN p + 1 ELSE p,
              ipStop |-> ipStop]))

\* the positions of s at which ip_pattern matches
MatchPositions(s) == {p \in 1..Len(s) : MatchAt(s, p) # NoMatch}

\* the scan of re.sub from position p: the leftmost match at or after p, then
\* on from the end of that match
RECURSIVE ScanFrom(_, _, _)
ScanFrom(s, pos, p) ==
    IF {q \in pos : q >= p} = {} THEN <<>>
    ELSE With(MatchAt(s, Least({q \in pos : q >= p})), LAMBDA m :
             <<m>> \o With(m.stop + 1, LAMBDA p2 : ScanFrom(s, pos, p2)))

\* the matches re.sub finds in s, in order
Scan(s) == With(MatchPositions(s), LAMBDA pos : ScanFrom(s, pos, 1))

\* ------------------------------------------------------------------ geolocation
\* States of /usr/local/share/GeoIP/GeoLite2-Country.mmdb:
\*   missing  the file cannot be opened: Reader(...) raises
\*   empty    no network is listed: every lookup raises AddressNotFoundError
\*   us       every address is listed with iso_code "US"
\*   noiso    every address is listed with a record whose iso_code is None
\*   v4only   IPv4 addresses are listed with iso_code "DE", IPv6 ones are not
GeoStates == {"missing", "empty", "us", "noiso", "v4only"}

Raise == [ok |-> FALSE, iso |-> <<>>]
Found(code) == [ok |-> TRUE, iso |-> code]

IsV4(ip) == "." \in {ip[i] : i \in 1..Len(ip)}

\* an IPv4 text with a group above 255, or with a leading zero, is no address:
\* the lookup raises ValueError
Malformed(ip) ==
    /\ IsV4(ip)
    /\ With(Split(ip, "."), LAMBDA gs :
           \E i \in 1..Len(gs) : With(gs[i], LAMBDA grp :
               \/ DecVal(grp, Len(grp)) > 255
               \/ Len(grp) > 1 /\ grp[1] = "0"))

\* reader.country(ip_address).country.iso_code, formatted by the f-string
country(g, ip) ==
    IF Malformed(ip) THEN Raise
    ELSE IF g = "us" THEN Found(<<"U", "S">>)
    ELSE IF g = "noiso" THEN Found(<<"N", "o", "n", "e">>)
    ELSE IF g = "v4only" /\ IsV4(ip) THEN Found(<<"D", "E">>)
    ELSE Raise

\* ------------------------------------------------------------------ replacement
\* replace_ip whose except branch masks instead of returning the match
replace_ip_maskOnError(ip, matched, cc, g) ==
    IF ip \in excluded_ips THEN matched
    ELSE IF cc /\ country(g, ip).ok THEN <<"[">> \o country(g, ip).iso \o <<"]">>
    ELSE IF IsV4(ip) THEN anonymize_ipv4(ip)
    ELSE anonymize_ipv6(ip)

\* replace_ip returning match.group('ip') for an excluded address
replace_ip_excludedGroup(ip, matched, cc, g) ==
    IF ip \in excluded_ips THEN ip
    ELSE IF cc
         THEN With(country(g, ip), LAMBDA r :
                  IF r.ok THEN <<"[">> \o r.iso \o <<"]">> ELSE matched)
         ELSE IF IsV4(ip)
              THEN anonymize_ipv4(ip)
              ELSE anonymize_ipv6(ip)

\* replace_ip(match): ip is match.group('ip'), matched is match.group()
replace_ip(ip, matched, cc, g) ==
    IF ip \in excluded_ips THEN matched
    ELSE IF cc
         THEN With(country(g, ip), LAMBDA r :
                  IF r.ok THEN <<"[">> \o r.iso \o <<"]">> ELSE matched)
         ELSE IF IsV4(ip)
              THEN anonymize_ipv4(ip)
              ELSE anonymize_ipv6(ip)

\* the replacement made for match m of s
Repl(s, m, cc, g) ==
    With(SubSeq(s, m.ipStart, m.ipStop), LAMBDA ip :
    With(SubSeq(s, m.start, m.stop), LAMBDA matched :
        [start |-> m.start, stop |-> m.stop, ipStart |-> m.ipStart, ipStop |-> m.ipStop,
         ip |-> ip, matched |-> matched, repl |-> replace_ip(ip, matched, cc, g)]))

\* replace_ip called on each match of s, in order
Repls(s, cc, g) ==
    With(Scan(s), LAMBDA ms : [i \in 1..Len(ms) |-> With(ms[i], LAMBDA m : Repl(s, m, cc, g))])

\* re.sub losing the text between the end of one match and the start of the next
re_sub_noGap(s, rs) ==
    Concat([i \in 1..Len(rs) |->
               (IF i = 1 THEN SubSeq(s, 1, rs[i].start - 1) ELSE <<>>) \o rs[i].repl])
    \o SubSeq(s, IF rs = <<>> THEN 1 ELSE rs[Len(rs)].stop + 1, Len(s))

\* re.sub(ip_pattern, replace_ip, s) given the replacements rs: the text before
\* each match followed by its replacement, then the text after the last match
re_sub(s, rs) ==
    Concat([i \in 1..Len(rs) |->
               SubSeq(s, IF i = 1 THEN 1 ELSE rs[i - 1].stop + 1, rs[i].start - 1)
               \o rs[i].repl])
    \o SubSeq(s, IF rs = <<>> THEN 1 ELSE rs[Len(rs)].stop + 1, Len(s))

\* anonymize_ip_addresses(content, geolite_database, replace_with_country_code)
anonymize_ip_addresses(s, g, cc) ==
    IF g = "missing"
    THEN [in |-> s, raised |-> TRUE, out |-> <<>>, repls |-> <<>>]
    ELSE With(Repls(s, cc, g), LAMBDA rs :
             [in |-> s, raised |-> FALSE, out |-> re_sub(s, rs), repls |-> rs])

\* ------------------------------------------------------------------ inputs
A4 == V4(234, 5, 6, 78)
X4 == V4(127, 0, 0, 1)
A6 == Join(<<<<"f", "e", "8", "0">>, <<"0">>, <<"0">>, <<"0">>, <<"0">>, <<"0">>, <<"0">>, <<"1">>>>, ":")
X6 == Pfx6 \o <<":", "2">>

\* the pieces input text is made of: a plain and an excluded address of either
\* family, the two brackets, a blank and a digit
Pieces == {A4, X4, A6, X6, <<"[">>, <<"]">>, <<" ">>, <<"1">>}
FilePieces == {A4, X4, A6, <<" ">>}

\* every concatenation of 1..n pieces
Texts(pieces, n) == {Concat(ts) : ts \in UNION {[1..k -> pieces] : k \in 1..n}}

\* values no text equals: no file at a path, a local not yet assigned
Absent == <<"(absent)">>
None == <<"(unassigned)">>

\* exit statuses: <<>> while the process runs, <<n>> once it ended with status n
NoExit == <<>>
Killed == <<137>>

\* ------------------------------------------------------------------ library level
\* A caller holds a text and calls anonymize_ip_addresses on it, then again on
\* what the call returned (a second run of the tool over its own output).
Init ==
    /\ mode \in BOOLEAN
    /\ geo \in GeoStates
    /\ text \in Texts(Pieces, MaxTokens)
    /\ runs = <<>>
    /\ pc = "lib"
    /\ haveArg = TRUE
    /\ sameFs = TRUE
    /\ orig = Absent
    /\ file = Absent
    /\ temp = Absent
    /\ content = None
    /\ anonymized = None
    /\ log = <<>>
    /\ err = "none"
    /\ exit = NoExit

Anonymize ==
    /\ pc = "lib"
    /\ Len(runs) < MaxRuns
    /\ \E r \in {anonymize_ip_addresses(text, geo, mode)} :
          /\ runs' = Append(runs, r)
          /\ text' = IF r.raised THEN text ELSE r.out
    /\ UNCHANGED <<mode, geo, pc, haveArg, sameFs, orig, file, temp, content,
                   anonymized, log, err, exit>>

Next == Anonymize

Spec == Init /\ [][Next]_vars

\* ------------------------------------------------------------------ main()
\* One run of the script over the file at the input path.
MainInit ==
    /\ mode \in BOOLEAN
    /\ geo \in GeoStates
    /\ haveArg \in BOOLEAN
    /\ sameFs \in BOOLEAN
    /\ orig \in Texts(FilePieces, MaxFileTokens) \cup {Absent}
    /\ file = orig
    /\ temp = Absent
    /\ content = None
    /\ anonymized = None
    /\ log = <<>>
    /\ err = "none"
    /\ exit = NoExit
    /\ pc = "args"
    /\ runs = <<>>
    /\ text = <<>>

\* what no step of main() changes
Fixed == UNCHANGED <<mode, geo, runs, text, haveArg, sameFs, orig>>

\* the handler of the second try: log the error, then main() returns
Handled(step) ==
    /\ log' = Append(log, "ERROR")
    /\ err' = step
    /\ pc' = "exited"
    /\ exit' = <<0>>

\* parser.parse_args(): a missing input_file ends the process with status 2
ParseArgs ==
    /\ pc = "args"
    /\ IF haveArg
       THEN pc' = "read" /\ UNCHANGED <<err, exit>>
       ELSE pc' = "exited" /\ err' = "usage" /\ exit' = <<2>>
    /\ UNCHANGED <<file, temp, content, anonymized, log>>
    /\ Fixed

\* open(args.input_file) and file.read() succeed
ReadOk ==
    /\ pc = "read"
    /\ file # Absent
    /\ content' = file
    /\ pc' = "transform"
    /\ UNCHANGED <<file, temp, anonymized, log, err, exit>>
    /\ Fixed

\* open or read raises: logging.error and sys.exit(1)
ReadFail ==
    /\ pc = "read"
    /\ log' = Append(log, "ERROR")
    /\ err' = "read"
    /\ pc' = "exited"
    /\ exit' = <<1>>
    /\ UNCHANGED <<file, temp, content, anonymized>>
    /\ Fixed

\* anonymized_content = anonymize_ip_addresses(content, geolite_database, args.CC)
Transform ==
    /\ pc = "transform"
    /\ \E r \in {anonymize_ip_addresses(content, geo, mode)} :
          IF r.raised
          THEN Handled("transform") /\ UNCHANGED anonymized
          ELSE anonymized' = r.out /\ pc' = "mktemp" /\ UNCHANGED <<log, err, exit>>
    /\ UNCHANGED <<file, temp, content>>
    /\ Fixed

\* tempfile.NamedTemporaryFile(mode='w', delete=False)
MkTempOk ==
    /\ pc = "mktemp"
    /\ temp' = <<>>
    /\ pc' = "write"
    /\ UNCHANGED <<file, content, anonymized, log, err, exit>>
    /\ Fixed

MkTempFail ==
    /\ pc = "mktemp"
    /\ Handled("mktemp")
    /\ UNCHANGED <<file, temp, content, anonymized>>
    /\ Fixed

\* temp_file.write(anonymized_content); temp_file.close()
WriteOk ==
    /\ pc = "write"
    /\ temp' = anonymized
    /\ pc' = "move"
    /\ UNCHANGED <<file, content, anonymized, log, err, exit>>
    /\ Fixed

\* write or close raises after k characters reached the temporary file
WriteFail ==
    /\ pc = "write"
    /\ \E k \in 0..Len(anonymized) : temp' = Take(anonymized, k)
    /\ Handled("write")
    /\ UNCHANGED <<file, content, anonymized>>
    /\ Fixed

\* shutil.move, temp file on the filesystem of the input file: os.rename
MoveRename ==
    /\ pc = "move"
    /\ sameFs
    /\ file' = temp
    /\ temp' = Absent
    /\ pc' = "loginfo"
    /\ UNCHANGED <<content, anonymized, log, err, exit>>
    /\ Fixed

\* shutil.move across filesystems: os.rename raises, so the temp file is
\* copied over the input path, which is first opened for writing (truncated)
MoveCopyOpen ==
    /\ pc = "move"
    /\ ~sameFs
    /\ file' = <<>>
    /\ pc' = "copy"
    /\ UNCHANGED <<temp, content, anonymized, log, err, exit>>
    /\ Fixed

\* the copy writes some more of the temp file to the input path
MoveCopyWrite ==
    /\ pc = "copy"
    /\ Len(file) < Len(temp)
    /\ \E k \in (Len(file) + 1)..Len(temp) : file' = Take(temp, k)
    /\ UNCHANGED <<pc, temp, content, anonymized, log, err, exit>>
    /\ Fixed

\* the copy is complete: os.unlink of the temp file
MoveCopyDone ==
    /\ pc = "copy"
    /\ Len(file) = Len(temp)
    /\ temp' = Absent
    /\ pc' = "loginfo"
    /\ UNCHANGED <<file, content, anonymized, log, err, exit>>
    /\ Fixed

\* shutil.move raises, before touching the input path or in the middle of the copy
MoveFail ==
    /\ pc \in {"move", "copy"}
    /\ Handled("move")
    /\ UNCHANGED <<file, temp, content, anonymized>>
    /\ Fixed

\* logging.info(...), then main() returns
LogInfo ==
    /\ pc = "loginfo"
    /\ log' = Append(log, "INFO")
    /\ pc' = "exited"
    /\ exit' = <<0>>
    /\ UNCHANGED <<file, temp, content, anonymized, err>>
    /\ Fixed

\* the process is killed (or the machine stops) at any point of the run
Crash ==
    /\ pc \notin {"exited", "crashed", "lib"}
    /\ pc' = "crashed"
    /\ exit' = Killed
    /\ UNCHANGED <<file, temp, content, anonymized, log, err>>
    /\ Fixed

MainNext ==
    \/ ParseArgs
    \/ ReadOk
    \/ ReadFail
    \/ Transform
    \/ MkTempOk
    \/ MkTempFail
    \/ WriteOk
    \/ WriteFail
    \/ MoveRename
    \/ MoveCopyOpen
    \/ MoveCopyWrite
    \/ MoveCopyDone
    \/ MoveFail
    \/ LogInfo
    \/ Crash

MainSpec == MainInit /\ [][MainNext]_vars

\* ------------------------------------------------------------------ properties
\* the calls that returned, and the replacements they made
Returned == {i \in 1..Len(runs) : ~runs[i].raised}
ReplsOf(i) == {runs[i].repls[k] : k \in 1..Len(runs[i].repls)}

X3 == <<"X", "X", "X">>
X4s == <<"X", "X", "X", "X">>

\* positions of the separators of an address, and its text up to the n-th one
SepsOf(ip, sep) == {i \in 1..Len(ip) : ip[i] = sep}
UpToSep(ip, sep, n) ==
    SubSeq(ip, 1, (CHOOSE i \in SepsOf(ip, sep) :
                      Cardinality({j \in SepsOf(ip, sep) : j <= i}) = n) - 1)

LookupFails(ip) == ~country(geo, ip).ok

C2_MaskIPv4 ==
    \A i \in Returned : \A r \in ReplsOf(i) :
        (~mode /\ IsV4(r.ip) /\ r.ip \notin excluded_ips)
        => /\ Cardinality(SepsOf(r.ip, ".")) = 3
           /\ r.repl = UpToSep(r.ip, ".", 2) \o <<".">> \o X3 \o <<".">> \o X3

C2_Witness ==
    \E i \in Returned : \E r \in ReplsOf(i) :
        /\ ~mode /\ IsV4(r.ip) /\ r.ip \notin excluded_ips
        /\ r.repl = UpToSep(r.ip, ".", 2) \o <<".">> \o X3 \o <<".">> \o X3

\* C3 as claimed: in Mask mode every full-form IPv6 candidate that is not excluded
\* is replaced by its first two groups followed by six groups XXXX, eight groups
\* joined by colons.
C3_MaskIPv6 ==
    \A i \in Returned : \A r \in ReplsOf(i) :
        (~mode /\ ~IsV4(r.ip) /\ r.ip \notin excluded_ips)
        => r.repl = UpToSep(r.ip, ":", 2) \o Concat([k \in 1..6 |-> <<":">> \o X4s])

\* C4: a candidate whose address is an entry of excluded_ips is emitted as the
\* matched input text, brackets included, in either mode and whatever the lookup
\* would give.
C4_ExcludedUnchanged ==
    \A i \in Returned : \A r \in ReplsOf(i) :
        r.ip \in excluded_ips => r.repl = SubSeq(runs[i].in, r.start, r.stop)

C4_Witness ==
    \E i \in Returned : \E r \in ReplsOf(i) :
        /\ r.ip \in excluded_ips
        /\ mode /\ ~LookupFails(r.ip)
        /\ r.stop - r.start > Len(r.ip)
        /\ r.repl = SubSeq(runs[i].in, r.start, r.stop)

\* s with the spans of rs replaced by their replacements, the last span first
RECURSIVE Splice(_, _, _)
Splice(s, rs, n) ==
    IF n = 0 THEN s
    ELSE Splice(SubSeq(s, 1, rs[n].start - 1), rs, n - 1)
         \o rs[n].repl \o SubSeq(s, rs[n].stop + 1, Len(s))

InSpan(rs, q) == \E k \in 1..Len(rs) : rs[k].start <= q /\ q <= rs[k].stop

\* C5: the output is the input with each matched span replaced in place: the
\* spans are matches of the scanner, in order and disjoint, no position outside
\* them starts a match, and all text outside them is kept as it is.
C5_SplicedInPlace ==
    \A i \in Returned :
        LET s == runs[i].in
            rs == runs[i].repls
        IN /\ \A k \in 1..Len(rs) :
                  /\ 1 <= rs[k].start /\ rs[k].start <= rs[k].stop /\ rs[k].stop <= Len(s)
                  /\ MatchAt(s, rs[k].start).stop = rs[k].stop
                  /\ k > 1 => rs[k - 1].stop < rs[k].start
           /\ \A q \in 1..Len(s) : ~InSpan(rs, q) => MatchAt(s, q) = NoMatch
           /\ runs[i].out = Splice(s, rs, Len(rs))

C5_Witness ==
    \E i \in Returned :
        /\ Len(runs[i].repls) >= 2
        /\ runs[i].repls[1].stop + 1 < runs[i].repls[2].start
        /\ runs[i].repls[1].repl # runs[i].repls[1].matched
        /\ runs[i].out = Splice(runs[i].in, runs[i].repls, Len(runs[i].repls))

\* C8 as claimed: no candidate is part of a longer token: an IPv4 candidate has no
\* decimal digit right before or after it, an IPv6 candidate no hexadecimal digit.
C8_WordBoundaries ==
    \A i \in Returned : \A r \in ReplsOf(i) :
        LET s == runs[i].in
            cls == IF IsV4(r.ip) THEN Digit ELSE HexDigit
        IN /\ r.ipStart > 1 => s[r.ipStart - 1] \notin cls
           /\ r.ipStop < Len(s) => s[r.ipStop + 1] \notin cls

\* a replacement of a Mask-mode call that masked its candidate
Masked(r) == ~mode /\ r.ip \notin excluded_ips

\* C10 as claimed: where a second Mask-mode pass over the output changes the text
\* again, it is because an address masked by the first pass still matches the
\* scanner and is masked again.
C10_RemaskedAddress ==
    (~mode /\ Len(runs) >= 2 /\ Returned = 1..Len(runs) /\ runs[2].out # runs[1].out)
    => \E r \in ReplsOf(1) : Masked(r) /\ Scan(r.repl) # <<>>

\* C10 amended: Mask mode is not idempotent (a second pass over the output of
\* "127.0.0.1[234.5.6.78" changes the text again), but no masked address matches
\* the scanner: the second pass finds a candidate only where a replacement and
\* the text next to it have joined into one.
C10_NotIdempotent ==
    /\ \A i \in Returned : \A r \in ReplsOf(i) : Masked(r) => Scan(r.repl) = <<>>
    /\ (~mode /\ Len(runs) >= 2 /\ Returned = 1..Len(runs) /\ runs[1].in = X4 \o <<"[">> \o A4)
       => runs[2].out # runs[1].out

C10_Witness ==
    /\ ~mode /\ Len(runs) >= 2 /\ Returned = 1..Len(runs)
    /\ runs[1].in = X4 \o <<"[">> \o A4
    /\ runs[2].in = runs[1].out
    /\ runs[2].out # runs[1].out
    /\ \E r \in ReplsOf(1) : Masked(r) /\ Scan(r.repl) = <<>>

\* C6 as claimed: at every point of a run of main, a crash or failure included,
\* the input path holds the complete original or the complete transformed
\* content, and the original one when writing the temp file or the move failed.
C6_AtomicReplace ==
    /\ file = orig \/ (anonymized # None /\ file = anonymized)
    /\ err \in {"mktemp", "write", "move"} => file = orig

\* C7 as claimed: a run ended by a failure to read the input, to write the temp
\* file or to move it has a non-zero exit status and an error entry in the log;
\* an informational entry is logged only by a run that succeeded; an unreadable
\* input ends the run before any transform, with no temp file.
C7_FatalErrorsExitNonZero ==
    pc = "exited" =>
        /\ err \in {"read", "mktemp", "write", "move"}
           => exit # <<0>> /\ \E k \in 1..Len(log) : log[k] = "ERROR"
        /\ (\E k \in 1..Len(log) : log[k] = "INFO")
           => err = "none" /\ anonymized # None /\ file = anonymized /\ temp = Absent
        /\ err = "read" => anonymized = None /\ temp = Absent /\ file = orig

\* C9 as claimed: the outcome of a Mask-mode run does not depend on the state of
\* the geolocation database: a run that no file operation failed in leaves at the
\* input path the text that a run with the database in any other state leaves.
C9_MaskIgnoresDatabase ==
    (pc = "exited" /\ ~mode /\ haveArg /\ err \in {"none", "transform"})
    => \A g \in GeoStates :
           LET other == anonymize_ip_addresses(orig, g, FALSE)
           IN file = (IF other.raised THEN orig ELSE other.out)

====
